---- MODULE Spec2Model ----
(***************************************************************************)
(* Model of the xfgwinter STARK pipeline: the prime-field element, the     *)
(* structural validation of proof components (types/stark.rs) and the      *)
(* prover / verifier entry points (proof/mod.rs).                          *)
(*                                                                         *)
(* A caller picks an AIR, an initial state and a step count and calls      *)
(* StarkProver::prove, or hands the verifier a proof object built          *)
(* elsewhere; the holder of a proof may overwrite one trace value (all     *)
(* fields of StarkProof are pub); StarkProof::validate and                 *)
(* StarkVerifier::verify are then run on the proof.                        *)
(*                                                                         *)
(* Three smaller specifications exercise the algebra on its own:           *)
(* FieldSpec applies the operations of PrimeField64 to constructed         *)
(* elements, BinarySpec adds and multiplies BinaryField elements, and      *)
(* DivideSpec runs FieldPolynomial::divide step by step.                   *)
(*                                                                         *)
(* Results are modelled as records: Result<T, E> carries kind "Ok" or      *)
(* "Err", a Rust panic (index out of bounds) is kind "Panic".              *)
(* validate returns the string "Ok" or the message of its TypeError.       *)
(* An Option carries kind "Some" or "None"; a loop that never ends is kind *)
(* "Diverges".                                                             *)
(***************************************************************************)
EXTENDS Integers, Sequences, FiniteSets, TLC

(***************************************************************************)
(* Bounds of the model.                                                    *)
(***************************************************************************)
\* largest num_steps handed to prove
MaxSteps == 10
\* SystemTime::now() is read as one of 0..MaxClock seconds
MaxClock == 1

(***************************************************************************)
(* PrimeField64 (types/field.rs).  The 64-bit word and the modulus are     *)
(* scaled down together: the word is U64 wide, the modulus is a prime      *)
(* that needs every bit of the word (a 64-bit modulus lies in the upper    *)
(* half of the word), so that the sum of two elements can exceed the word. *)
(***************************************************************************)
U64 == 16
MODULUS == 13

Field == 0..(MODULUS - 1)

PrimeField64_new(value) == value % MODULUS

add_constant_time(a, b) ==
    LET sum    == (a + b) % U64
        carry  == IF sum < a THEN 1 ELSE 0
        result == (sum + carry * (MODULUS - 1)) % U64
    IN  PrimeField64_new(result)

sub_constant_time(a, b) ==
    LET diff   == (a - b) % U64
        borrow == IF diff > a THEN 1 ELSE 0
        result == (diff - borrow * MODULUS) % U64
    IN  PrimeField64_new(result)

mul_constant_time(a, b) ==
    LET product == a * b
        result  == product % MODULUS
    IN  PrimeField64_new(result)

(***************************************************************************)
(* FieldPolynomial::evaluate (types/polynomial.rs): one pass over the      *)
(* coefficients, constant term first, with a running power of the point.   *)
(***************************************************************************)
RECURSIVE EvaluateLoop(_, _, _, _, _)
EvaluateLoop(coefficients, i, result, power, point) ==
    IF i > Len(coefficients) THEN result
    ELSE EvaluateLoop(coefficients, i + 1,
                      add_constant_time(result, mul_constant_time(coefficients[i], power)),
                      mul_constant_time(power, point), point)

evaluate(coefficients, point) ==
    EvaluateLoop(coefficients, 1, PrimeField64_new(0), PrimeField64_new(1), point)

Min(a, b) == IF a < b THEN a ELSE b

(***************************************************************************)
(* crate::air (not part of the sources): the transition function is a      *)
(* coefficient matrix with one row per register; row i is the polynomial   *)
(* (constant term first) that gives register i's next value from its       *)
(* current value.  The counter is next = current + 1.                      *)
(***************************************************************************)
TransitionFunction_counter ==
    [coefficients |-> << <<1, 1>> >>, degree |-> 1]

num_registers(transition) == Len(transition.coefficients)

apply(transition, state) ==
    [i \in 1..Min(num_registers(transition), Len(state)) |->
        evaluate(transition.coefficients[i], state[i])]

\* Constraint::evaluate(current_state, next_state, random_challenge)
Constraint_evaluate(constraint, current_state, next_state, random_challenge) ==
    mul_constant_time(random_challenge,
        sub_constant_time(next_state[1],
                          evaluate(constraint.polynomial, current_state[1])))

BoundaryConditions_empty == [constraints |-> <<>>]

\* an Air built field by field, as prove does for the proof it returns
Air_new(constraints, transition, boundary, security_parameter) ==
    [constraints        |-> constraints,
     transition         |-> transition,
     boundary           |-> boundary,
     security_parameter |-> security_parameter]

(***************************************************************************)
(* Structural validation, types/stark.rs.                                  *)
(***************************************************************************)
\* the first error of a sequence of validation results ("?" inside a loop)
RECURSIVE FirstError(_, _)
FirstError(results, i) ==
    IF i > Len(results) THEN "Ok"
    ELSE IF results[i] # "Ok" THEN results[i]
    ELSE FirstError(results, i + 1)

ExecutionTrace_validate(trace) ==
    IF trace.length = 0 THEN "Empty trace"
    ELSE IF trace.num_registers = 0 THEN "No registers"
    ELSE IF Len(trace.columns) # trace.num_registers THEN "Column count mismatch"
    ELSE IF \E i \in 1..Len(trace.columns) : Len(trace.columns[i]) # trace.length
         THEN "Column length mismatch"
    ELSE "Ok"

TransitionFunction_validate(transition) ==
    IF transition.coefficients = <<>> THEN "Empty coefficients" ELSE "Ok"

BoundaryConstraint_validate(constraint) == "Ok"

BoundaryConditions_validate(boundary) ==
    FirstError([i \in 1..Len(boundary.constraints) |->
                    BoundaryConstraint_validate(boundary.constraints[i])], 1)

\* the loop over air.constraints has an empty body, and security_parameter
\* is not read
Air_validate(air) ==
    LET t == TransitionFunction_validate(air.transition)
        b == BoundaryConditions_validate(air.boundary)
    IN  IF t # "Ok" THEN t
        ELSE IF b # "Ok" THEN b
        ELSE "Ok"

MerkleCommitment_validate(commitment) ==
    IF commitment.root = <<>> THEN "Empty root"
    ELSE IF commitment.leaves = <<>> THEN "Empty leaves"
    ELSE "Ok"

FriLayer_validate(layer) ==
    IF layer.polynomial = <<>> THEN "Empty polynomial"
    ELSE IF layer.commitment = <<>> THEN "Empty commitment"
    ELSE "Ok"

FriQuery_validate(query) ==
    IF query.responses = <<>> THEN "Empty responses" ELSE "Ok"

FriProof_validate(fri_proof) ==
    LET layers  == FirstError([i \in 1..Len(fri_proof.layers) |->
                                  FriLayer_validate(fri_proof.layers[i])], 1)
        queries == FirstError([i \in 1..Len(fri_proof.queries) |->
                                  FriQuery_validate(fri_proof.queries[i])], 1)
    IN  IF fri_proof.layers = <<>> THEN "Empty layers"
        ELSE IF fri_proof.final_polynomial = <<>> THEN "Empty final polynomial"
        ELSE IF layers # "Ok" THEN layers
        ELSE IF queries # "Ok" THEN queries
        ELSE "Ok"

StarkProof_validate(proof) ==
    LET t == ExecutionTrace_validate(proof.trace)
        a == Air_validate(proof.air)
        c == FirstError([i \in 1..Len(proof.commitments) |->
                            MerkleCommitment_validate(proof.commitments[i])], 1)
        f == FriProof_validate(proof.fri_proof)
    IN  IF t # "Ok" THEN t
        ELSE IF a # "Ok" THEN a
        ELSE IF c # "Ok" THEN c
        ELSE IF f # "Ok" THEN f
        ELSE "Ok"

(***************************************************************************)
(* StarkProver, proof/mod.rs.                                              *)
(***************************************************************************)
\* StarkProver::new(128) and StarkVerifier::new(128) of the tests
SecurityParameter == 128

FieldModulusName == "0x30644e72e131a029b85045b68181585d97816a916871ca8d3c208c16d87cfd47"

\* row k (1-based) of a trace: the k-th element of every column
Row(trace, k) == [i \in 1..Len(trace.columns) |-> trace.columns[i][k]]

\* push value i of a state onto column i, for the registers that exist
PushState(columns, n, state) ==
    [i \in 1..n |-> IF i <= Len(state) THEN Append(columns[i], state[i])
                    ELSE columns[i]]

\* the loop "for _ in 1..num_steps" with `remaining` iterations left
RECURSIVE TraceLoop(_, _, _, _, _)
TraceLoop(transition, n, columns, current_state, remaining) ==
    IF remaining = 0 THEN columns
    ELSE LET next_state == apply(transition, current_state)
         IN  TraceLoop(transition, n, PushState(columns, n, next_state),
                       next_state, remaining - 1)

\* the same loop without "current_state = next_state"
RECURSIVE TraceLoop_StaleState(_, _, _, _, _)
TraceLoop_StaleState(transition, n, columns, current_state, remaining) ==
    IF remaining = 0 THEN columns
    ELSE LET next_state == apply(transition, current_state)
         IN  TraceLoop_StaleState(transition, n, PushState(columns, n, next_state),
                                  current_state, remaining - 1)

generate_trace_StaleState(air, initial_state, num_steps) ==
    LET n       == num_registers(air.transition)
        empty   == [i \in 1..n |-> <<>>]
        columns == PushState(empty, n, initial_state)
        iters   == IF num_steps >= 1 THEN num_steps - 1 ELSE 0
    IN  [columns       |-> TraceLoop_StaleState(air.transition, n, columns, initial_state, iters),
         length        |-> num_steps,
         num_registers |-> n]

generate_trace(air, initial_state, num_steps) ==
    LET n       == num_registers(air.transition)
        empty   == [i \in 1..n |-> <<>>]
        columns == PushState(empty, n, initial_state)
        iters   == IF num_steps >= 1 THEN num_steps - 1 ELSE 0
    IN  [columns       |-> TraceLoop(air.transition, n, columns, initial_state, iters),
         length        |-> num_steps,
         num_registers |-> n]

\* both states read from the row at `step`
generate_constraint_polynomials_SameRow(air, trace, random_challenge) ==
    LET steps  == IF trace.length >= 1 THEN trace.length - 1 ELSE 0
        panics == /\ air.constraints # <<>>
                  /\ \E step \in 1..steps : \E i \in 1..Len(trace.columns) :
                        Len(trace.columns[i]) < step + 1
    IN  IF panics THEN [kind |-> "Panic", polynomials |-> <<>>]
        ELSE [kind        |-> "Ok",
              polynomials |->
                 [c \in 1..Len(air.constraints) |->
                    [step \in 1..steps |->
                        Constraint_evaluate(air.constraints[c], Row(trace, step),
                                            Row(trace, step), random_challenge)]]]

\* col[step] and col[step + 1] are unchecked index operations: a column
\* shorter than the trace length makes the evaluation panic
generate_constraint_polynomials(air, trace, random_challenge) ==
    LET steps  == IF trace.length >= 1 THEN trace.length - 1 ELSE 0
        panics == /\ air.constraints # <<>>
                  /\ \E step \in 1..steps : \E i \in 1..Len(trace.columns) :
                        Len(trace.columns[i]) < step + 1
    IN  IF panics THEN [kind |-> "Panic", polynomials |-> <<>>]
        ELSE [kind        |-> "Ok",
              polynomials |->
                 [c \in 1..Len(air.constraints) |->
                    [step \in 1..steps |->
                        Constraint_evaluate(air.constraints[c], Row(trace, step),
                                            Row(trace, step + 1), random_challenge)]]]

generate_fri_proof(constraint_polynomials) ==
    [layers |-> <<>>, final_polynomial |-> <<>>, queries |-> <<>>]

generate_commitments(trace, constraint_polynomials) == <<>>

create_proof_metadata(security_parameter, air, trace, now) ==
    [version            |-> 1,
     security_parameter |-> security_parameter,
     field_modulus      |-> FieldModulusName,
     proof_size         |-> trace.length * trace.num_registers,
     timestamp          |-> now]

\* the value of the proof slot while no proof is held
NoProof ==
    [trace       |-> [columns |-> <<>>, length |-> 0, num_registers |-> 0],
     air         |-> Air_new(<<>>, [coefficients |-> <<>>, degree |-> 0],
                             BoundaryConditions_empty, 0),
     commitments |-> <<>>,
     fri_proof   |-> [layers |-> <<>>, final_polynomial |-> <<>>, queries |-> <<>>],
     metadata    |-> [version |-> 0, security_parameter |-> 0, field_modulus |-> "",
                      proof_size |-> 0, timestamp |-> 0]]

prove(security_parameter, air, initial_state, num_steps, random_challenge, now) ==
    LET trace == generate_trace(air, initial_state, num_steps)
        polys == generate_constraint_polynomials(air, trace, random_challenge)
    IN  IF polys.kind = "Panic" THEN [kind |-> "Panic", proof |-> NoProof]
        ELSE [kind  |-> "Ok",
              proof |-> [trace       |-> trace,
                         air         |-> Air_new(air.constraints, air.transition,
                                                 air.boundary, air.security_parameter),
                         commitments |-> generate_commitments(trace, polys.polynomials),
                         fri_proof   |-> generate_fri_proof(polys.polynomials),
                         metadata    |-> create_proof_metadata(security_parameter, air,
                                                               trace, now)]]

(***************************************************************************)
(* StarkVerifier, proof/mod.rs.  The result of verify also lists the       *)
(* checks that were executed, in order.                                    *)
(***************************************************************************)
verify_boundary_conditions(proof, public_inputs) == TRUE

verify_constraints(proof) == TRUE

verify_fri_proof(proof) == TRUE

verify_commitments(proof) == TRUE

\* verify without its first step
verify_Unvalidated(proof, public_inputs) ==
    IF ~verify_boundary_conditions(proof, public_inputs)
        THEN [kind |-> "Ok", value |-> FALSE, ran |-> <<"boundary">>]
    ELSE IF ~verify_constraints(proof)
        THEN [kind |-> "Ok", value |-> FALSE, ran |-> <<"boundary", "constraints">>]
    ELSE IF ~verify_fri_proof(proof)
        THEN [kind |-> "Ok", value |-> FALSE, ran |-> <<"boundary", "constraints", "fri">>]
    ELSE IF ~verify_commitments(proof)
        THEN [kind |-> "Ok", value |-> FALSE,
              ran |-> <<"boundary", "constraints", "fri", "commitments">>]
    ELSE [kind |-> "Ok", value |-> TRUE,
          ran |-> <<"boundary", "constraints", "fri", "commitments">>]

verify(proof, public_inputs) ==
    IF StarkProof_validate(proof) # "Ok"
        THEN [kind |-> "Err", value |-> FALSE, ran |-> <<>>]
    ELSE IF ~verify_boundary_conditions(proof, public_inputs)
        THEN [kind |-> "Ok", value |-> FALSE, ran |-> <<"boundary">>]
    ELSE IF ~verify_constraints(proof)
        THEN [kind |-> "Ok", value |-> FALSE, ran |-> <<"boundary", "constraints">>]
    ELSE IF ~verify_fri_proof(proof)
        THEN [kind |-> "Ok", value |-> FALSE, ran |-> <<"boundary", "constraints", "fri">>]
    ELSE IF ~verify_commitments(proof)
        THEN [kind |-> "Ok", value |-> FALSE,
              ran |-> <<"boundary", "constraints", "fri", "commitments">>]
    ELSE [kind |-> "Ok", value |-> TRUE,
          ran |-> <<"boundary", "constraints", "fri", "commitments">>]

(***************************************************************************)
(* Inputs.                                                                 *)
(***************************************************************************)
\* the constraint of test_simple_proof_generation / test_proof_verification
CounterConstraint ==
    [polynomial |-> <<1, 1>>, degree |-> 1, constraint_type |-> "Transition"]

\* the AIR of test_proof_verification
CounterAir ==
    Air_new(<<CounterConstraint>>, TransitionFunction_counter,
            BoundaryConditions_empty, SecurityParameter)

\* two registers: a counter and a register that keeps its value
TwoRegisterAir ==
    Air_new(<<CounterConstraint>>,
            [coefficients |-> << <<1, 1>>, <<0, 1>> >>, degree |-> 1],
            BoundaryConditions_empty, SecurityParameter)

\* the AIR of test_stark_proof_validation: no constraint
UnconstrainedAir ==
    Air_new(<<>>, [coefficients |-> << <<1>> >>, degree |-> 1],
            BoundaryConditions_empty, SecurityParameter)

ZeroSecurityAir ==
    Air_new(<<CounterConstraint>>, TransitionFunction_counter,
            BoundaryConditions_empty, 0)

EmptyTransitionAir ==
    Air_new(<<CounterConstraint>>, [coefficients |-> <<>>, degree |-> 1],
            BoundaryConditions_empty, SecurityParameter)

\* AIRs handed to prove
ProverAirs == {CounterAir, TwoRegisterAir, UnconstrainedAir}

InitialStates == {<<>>, <<0>>, <<1>>, <<0, 5>>, <<3, 4>>}

Challenges == {1, 2}

\* public inputs handed to verify
PublicInputs == {<<0>>, <<1>>}

\* components of proofs that reach the verifier from elsewhere
GivenTraces ==
    {[columns |-> << <<1, 2>> >>, length |-> 2, num_registers |-> 1],
     [columns |-> << <<>> >>,     length |-> 0, num_registers |-> 1],
     [columns |-> <<>>,           length |-> 2, num_registers |-> 0],
     [columns |-> << <<1, 2>> >>, length |-> 2, num_registers |-> 2],
     [columns |-> << <<1>> >>,    length |-> 2, num_registers |-> 1]}

GivenAirs == {CounterAir, UnconstrainedAir, ZeroSecurityAir, EmptyTransitionAir}

GoodCommitment == [root |-> <<7>>, depth |-> 1, leaves |-> <<1, 2>>]

GivenCommitments ==
    {<<>>,
     <<GoodCommitment>>,
     <<[root |-> <<>>, depth |-> 1, leaves |-> <<1, 2>>]>>,
     <<GoodCommitment, [root |-> <<7>>, depth |-> 0, leaves |-> <<>>]>>}

GoodLayer == [polynomial |-> <<1, 2>>, commitment |-> <<7>>, degree |-> 1]

GoodQuery == [point |-> 3, responses |-> <<4>>]

GivenFriProofs ==
    {[layers |-> <<>>, final_polynomial |-> <<1>>, queries |-> <<>>],
     [layers |-> <<>>, final_polynomial |-> <<>>, queries |-> <<>>],
     [layers |-> <<GoodLayer>>, final_polynomial |-> <<1>>, queries |-> <<>>],
     [layers |-> <<GoodLayer>>, final_polynomial |-> <<1>>, queries |-> <<GoodQuery>>],
     [layers |-> <<GoodLayer>>, final_polynomial |-> <<>>, queries |-> <<>>],
     [layers |-> <<[polynomial |-> <<>>, commitment |-> <<7>>, degree |-> 1]>>,
      final_polynomial |-> <<1>>, queries |-> <<>>],
     [layers |-> <<GoodLayer, [polynomial |-> <<1>>, commitment |-> <<>>, degree |-> 0]>>,
      final_polynomial |-> <<1>>, queries |-> <<>>],
     [layers |-> <<GoodLayer>>, final_polynomial |-> <<1>>,
      queries |-> <<GoodQuery, [point |-> 3, responses |-> <<>>]>>],
     [layers |-> <<GoodLayer, GoodLayer>>, final_polynomial |-> <<1>>,
      queries |-> <<>>]}

\* the metadata of test_stark_proof_validation
GivenMetadata ==
    [version |-> 1, security_parameter |-> SecurityParameter,
     field_modulus |-> FieldModulusName, proof_size |-> 1024, timestamp |-> 0]

(***************************************************************************)
(* State.                                                                  *)
(***************************************************************************)
VARIABLES
    air,                \* arguments of the last call of prove
    initial_state,
    num_steps,
    trace,              \* what generate_trace returned inside that call
    constraint_polynomials, \* what generate_constraint_polynomials returned in it
    proveResult,        \* what prove returned
    proof,              \* the proof object in the holder's hands
    origin,             \* "none", "prover" (from prove) or "given"
    tampered,           \* a trace value of the proof was overwritten
    validateResult,     \* StarkProof::validate on proof ("None" before the call)
    airValidateResult,  \* Air::validate on proof.air
    public_inputs,      \* argument of the last call of verify
    verifyResult        \* what verify returned

pipelineVars == <<air, initial_state, num_steps, trace, constraint_polynomials,
                  proveResult, proof, origin, tampered, validateResult,
                  airValidateResult, public_inputs, verifyResult>>

VARIABLES
    overflow_checks,    \* the build panics on integer overflow (debug) or wraps (release)
    fa, fb,             \* two PrimeField64 operands
    fx,                 \* the element the field operations are applied to
    flog,               \* the operations applied to fx so far, oldest first
    fpath,              \* the arms of the conditionals the last operation went through
    finv,               \* what fa.inverse() returned
    fsqrt,              \* what fa.sqrt() returned
    ba, bb,             \* two BinaryField operands
    bresult,            \* what the last BinaryField operation returned
    dividend, divisor,  \* arguments of FieldPolynomial::divide
    dquotient, dremainder, \* its locals quotient and remainder
    dpc,                \* its position: "idle", "loop", "body" or "done"
    dwritten,           \* the indices of quotient written by the iterations so far
    doverwrote,         \* an iteration wrote an index an earlier one had written
    dresult,            \* what it returned
    poly,               \* the polynomial the polynomial operations are applied to
    pprev,              \* poly before the last operation
    plog,               \* the operations applied to poly so far, oldest first
    points,             \* argument of FieldPolynomial::interpolate
    iresult,            \* what it returned
    leaves,             \* the leaf sequence committed to
    mroot,              \* what generate_commitment returned
    mindex,             \* the index of the leaf a path was generated for
    mpath,              \* the inclusion path, as generated or after the alteration
    maltered,           \* one element of the path was altered
    mverified,          \* what verify_inclusion_proof returned
    xtrace,             \* argument of WinterfellTraceTable::from_xfg_trace
    wtable,             \* what it returned
    wget                \* last call of get: row, col and what it returned

fieldVars  == <<fa, fb, fx, flog, fpath, finv, fsqrt>>
binaryVars == <<ba, bb, bresult>>
divideVars == <<dividend, divisor, dquotient, dremainder, dpc, dwritten, doverwrote,
                dresult>>
polyVars   == <<poly, pprev, plog, points, iresult>>
merkleVars == <<leaves, mroot, mindex, mpath, maltered, mverified>>
tableVars  == <<xtrace, wtable, wget>>
restVars   == <<polyVars, merkleVars, tableVars>>
algebraVars == <<overflow_checks, fieldVars, binaryVars, divideVars, restVars>>

vars == <<pipelineVars, algebraVars>>

NotCalled == [kind |-> "NotCalled"]

FieldIdle ==
    /\ fa = 0
    /\ fb = 0
    /\ fx = 0
    /\ flog = <<>>
    /\ fpath = <<>>
    /\ finv = NotCalled
    /\ fsqrt = NotCalled

BinaryIdle ==
    /\ ba = [value |-> {}, degree |-> 8]
    /\ bb = [value |-> {}, degree |-> 8]
    /\ bresult = NotCalled

DivideIdle ==
    /\ dividend = <<>>
    /\ divisor = <<>>
    /\ dquotient = <<>>
    /\ dremainder = <<>>
    /\ dpc = "idle"
    /\ dwritten = {}
    /\ doverwrote = FALSE
    /\ dresult = NotCalled

PolyIdle ==
    /\ poly = <<>>
    /\ pprev = <<>>
    /\ plog = <<>>
    /\ points = <<>>
    /\ iresult = NotCalled

MerkleIdle ==
    /\ leaves = <<>>
    /\ mroot = <<>>
    /\ mindex = 0
    /\ mpath = <<>>
    /\ maltered = FALSE
    /\ mverified = NotCalled

TableIdle ==
    /\ xtrace = [columns |-> <<>>, length |-> 0, num_registers |-> 0]
    /\ wtable = NotCalled
    /\ wget = NotCalled

RestIdle ==
    /\ PolyIdle
    /\ MerkleIdle
    /\ TableIdle

NotVerified == [kind |-> "None", value |-> FALSE, ran |-> <<>>]

PipelineInit ==
    /\ air = NoProof.air
    /\ initial_state = <<>>
    /\ num_steps = 0
    /\ trace = NoProof.trace
    /\ constraint_polynomials = [kind |-> "None", polynomials |-> <<>>]
    /\ proveResult = [kind |-> "None", proof |-> NoProof]
    /\ proof = NoProof
    /\ origin = "none"
    /\ tampered = FALSE
    /\ validateResult = "None"
    /\ airValidateResult = "None"
    /\ public_inputs = <<>>
    /\ verifyResult = NotVerified

Init ==
    /\ PipelineInit
    /\ overflow_checks = FALSE
    /\ FieldIdle
    /\ BinaryIdle
    /\ DivideIdle
    /\ RestIdle

\* StarkProver::new(128).prove(&air, &initial_state, num_steps)
Prove(a, s, n, random_challenge, now) ==
    /\ origin = "none"
    /\ air' = a
    /\ initial_state' = s
    /\ num_steps' = n
    /\ trace' = generate_trace(a, s, n)
    /\ constraint_polynomials' = generate_constraint_polynomials(a, trace', random_challenge)
    /\ proveResult' = prove(SecurityParameter, a, s, n, random_challenge, now)
    /\ proof' = proveResult'.proof
    /\ origin' = "prover"
    /\ UNCHANGED <<tampered, validateResult, airValidateResult, public_inputs,
                   verifyResult>>
    /\ UNCHANGED algebraVars

\* a proof object assembled by someone else reaches the holder
Receive(p) ==
    /\ origin = "none"
    /\ proof' = p
    /\ origin' = "given"
    /\ UNCHANGED <<air, initial_state, num_steps, trace, proveResult, tampered,
                   validateResult, airValidateResult, public_inputs, verifyResult>>
    /\ UNCHANGED constraint_polynomials
    /\ UNCHANGED algebraVars

\* proof.trace.columns[i][k] = v, for a value v other than the one stored
Tamper(i, k, v) ==
    /\ origin = "prover"
    /\ proveResult.kind = "Ok"
    /\ ~tampered
    /\ validateResult = "None"
    /\ verifyResult.kind = "None"
    /\ i \in 1..Len(proof.trace.columns)
    /\ k \in 1..Len(proof.trace.columns[i])
    /\ v # proof.trace.columns[i][k]
    /\ proof' = [proof EXCEPT !.trace.columns[i][k] = v]
    /\ tampered' = TRUE
    /\ UNCHANGED <<air, initial_state, num_steps, trace, proveResult, origin,
                   validateResult, airValidateResult, public_inputs, verifyResult>>
    /\ UNCHANGED constraint_polynomials
    /\ UNCHANGED algebraVars

HoldsProof == origin = "given" \/ (origin = "prover" /\ proveResult.kind = "Ok")

\* proof.validate(), and proof.air.validate() on its own
Validate ==
    /\ HoldsProof
    /\ validateResult = "None"
    /\ validateResult' = StarkProof_validate(proof)
    /\ airValidateResult' = Air_validate(proof.air)
    /\ UNCHANGED <<air, initial_state, num_steps, trace, proveResult, proof, origin,
                   tampered, public_inputs, verifyResult>>
    /\ UNCHANGED constraint_polynomials
    /\ UNCHANGED algebraVars

\* StarkVerifier::new(128).verify(&proof, &inputs)
Verify(inputs) ==
    /\ HoldsProof
    /\ verifyResult.kind = "None"
    /\ verifyResult' = verify(proof, inputs)
    /\ public_inputs' = inputs
    /\ UNCHANGED <<air, initial_state, num_steps, trace, proveResult, proof, origin,
                   tampered, validateResult, airValidateResult>>
    /\ UNCHANGED constraint_polynomials
    /\ UNCHANGED algebraVars

Next ==
    \/ \E a \in ProverAirs, s \in InitialStates, n \in 0..MaxSteps,
          c \in Challenges, now \in 0..MaxClock : Prove(a, s, n, c, now)
    \/ \E t \in GivenTraces, a \in GivenAirs, c \in GivenCommitments,
          f \in GivenFriProofs :
            Receive([trace |-> t, air |-> a, commitments |-> c, fri_proof |-> f,
                     metadata |-> GivenMetadata])
    \/ \E i \in 1..2, k \in 1..(MaxSteps + 1), v \in Field : Tamper(i, k, v)
    \/ Validate
    \/ \E inputs \in PublicInputs : Verify(inputs)

Spec == Init /\ [][Next]_vars

(***************************************************************************)
(* Properties.                                                             *)
(***************************************************************************)
Proved == origin = "prover"

Verified == verifyResult.kind # "None"

Validated == validateResult # "None"

AllChecks == <<"boundary", "constraints", "fri", "commitments">>

\* the call of prove had one initial value per register and at least one step
WellFormedCall ==
    /\ num_steps >= 1
    /\ Len(initial_state) = num_registers(air.transition)

\* C1: whenever prove returned a proof and verify has run on that unmodified
\* proof with the initial state as public inputs, verify returned Ok(true).
\* Stated for calls with one initial value per register and at least one
\* step, which include the counter AIR run from [0] for 10 steps.
C1_ProveThenVerifyAccepts ==
    (/\ Proved
     /\ WellFormedCall
     /\ proveResult.kind = "Ok"
     /\ ~tampered
     /\ Verified
     /\ public_inputs = initial_state)
        => (verifyResult.kind = "Ok" /\ verifyResult.value = TRUE)

\* C2: whenever one trace value of a proof returned by prove was replaced by
\* a different field element and verify has run on it, verify returned
\* Ok(false).  Stated for proofs of calls with one initial value per register
\* and at least one step.
C2_TamperedTraceRejected ==
    (Proved /\ WellFormedCall /\ tampered /\ Verified)
        => (verifyResult.kind = "Ok" /\ verifyResult.value = FALSE)

\* C3: verify returns an error exactly when structural validation fails, and
\* then no check has run; on a structurally valid proof it runs the boundary,
\* constraint, FRI and Merkle checks in this order, stops at the first that
\* fails with Ok(false), and returns Ok(true) exactly when all four pass.
C3_VerifyClassification ==
    Verified =>
        LET valid  == StarkProof_validate(proof) = "Ok"
            passes == [c \in {"boundary", "constraints", "fri", "commitments"} |->
                         CASE c = "boundary"    -> verify_boundary_conditions(proof, public_inputs)
                           [] c = "constraints" -> verify_constraints(proof)
                           [] c = "fri"         -> verify_fri_proof(proof)
                           [] c = "commitments" -> verify_commitments(proof)]
            ran    == verifyResult.ran
        IN  /\ (verifyResult.kind = "Err") <=> ~valid
            /\ ~valid => ran = <<>>
            /\ valid =>
                /\ verifyResult.kind = "Ok"
                /\ Len(ran) >= 1
                /\ ran = SubSeq(AllChecks, 1, Len(ran))
                /\ \A j \in 1..(Len(ran) - 1) : passes[ran[j]]
                /\ verifyResult.value = (\A c \in DOMAIN passes : passes[c])
                /\ verifyResult.value => ran = AllChecks
                /\ ~verifyResult.value => ~passes[ran[Len(ran)]]

\* C3 witness: a structurally valid proof went through all four checks and
\* was accepted.
C3_Witness ==
    /\ Verified
    /\ StarkProof_validate(proof) = "Ok"
    /\ verifyResult = [kind |-> "Ok", value |-> TRUE, ran |-> AllChecks]

\* C4: when initial_state does not have one element per register of the
\* transition function, prove returns a typed error and no proof.  Stated for
\* calls with at least one step.
C4_MismatchIsTypedError ==
    (Proved /\ num_steps >= 1 /\ Len(initial_state) # num_registers(air.transition))
        => (proveResult.kind = "Err" /\ proveResult.proof = NoProof)

\* C5: every proof that prove returns with Ok passes StarkProof::validate.
\* Stated for calls with one initial value per register and at least one step.
C5_ReturnedProofValidates ==
    (Proved /\ WellFormedCall /\ proveResult.kind = "Ok")
        => StarkProof_validate(proveResult.proof) = "Ok"

\* C6: for every num_steps and every initial_state the trace returned by
\* generate_trace has num_registers columns of exactly `length` elements
\* each, with length = num_steps.
C6_TraceShape ==
    Proved =>
        /\ trace.length = num_steps
        /\ trace.num_registers = Len(trace.columns)
        /\ \A i \in 1..Len(trace.columns) : Len(trace.columns[i]) = trace.length

\* C7: for an initial state with one element per register and num_steps >= 1,
\* row 0 of the generated trace is the initial state, the trace has num_steps
\* rows, and every later row is the transition function applied to the row
\* before it (num_steps - 1 applications); the counter from [0] over 10 steps
\* gives the single column [0, 1, ..., 9].
C7_TraceRows ==
    (/\ Proved
     /\ num_steps >= 1
     /\ Len(initial_state) = num_registers(air.transition))
        => /\ Len(trace.columns) = Len(initial_state)
           /\ \A i \in 1..Len(trace.columns) : Len(trace.columns[i]) = num_steps
           /\ Row(trace, 1) = initial_state
           /\ \A k \in 1..(num_steps - 1) :
                 Row(trace, k + 1) = apply(air.transition, Row(trace, k))
           /\ (air = CounterAir /\ initial_state = <<0>> /\ num_steps = 10)
                 => trace.columns = << <<0, 1, 2, 3, 4, 5, 6, 7, 8, 9>> >>

\* C7 witness: the counter AIR was run from [0] for 10 steps and produced the
\* column [0, 1, ..., 9].
C7_Witness ==
    /\ Proved
    /\ air = CounterAir
    /\ initial_state = <<0>>
    /\ num_steps = 10
    /\ trace.columns = << <<0, 1, 2, 3, 4, 5, 6, 7, 8, 9>> >>

\* C9: StarkProof::validate returns Ok for a proof with a consistent,
\* non-empty trace, non-empty transition coefficients and a non-empty FRI
\* final polynomial that has no constraints, no commitments, no FRI layers
\* and no FRI queries.
C9_MinimalProofValidates ==
    (/\ Validated
     /\ ExecutionTrace_validate(proof.trace) = "Ok"
     /\ proof.air.transition.coefficients # <<>>
     /\ proof.fri_proof.final_polynomial # <<>>
     /\ proof.air.constraints = <<>>
     /\ proof.commitments = <<>>
     /\ proof.fri_proof.layers = <<>>
     /\ proof.fri_proof.queries = <<>>)
        => validateResult = "Ok"

\* C10: validation of an AIR whose security_parameter is 0 or that has no
\* constraint fails, and so does validation of a proof that embeds it.
\* Stated for proofs whose trace, commitments and FRI proof are structurally
\* valid, so that the AIR alone decides the outcome.
C10_AirInvariantEnforced ==
    (/\ Validated
     /\ ExecutionTrace_validate(proof.trace) = "Ok"
     /\ \A i \in 1..Len(proof.commitments) :
            MerkleCommitment_validate(proof.commitments[i]) = "Ok"
     /\ FriProof_validate(proof.fri_proof) = "Ok"
     /\ (proof.air.security_parameter = 0 \/ proof.air.constraints = <<>>))
        => (airValidateResult # "Ok" /\ validateResult # "Ok")

(***************************************************************************)
(* PrimeField64, the rest of the element's operations (types/field.rs).    *)
(* Arithmetic on u64 that leaves 0..U64-1 panics in a build with overflow  *)
(* checks and wraps modulo U64 in a build without them; `checks` says      *)
(* which build runs.                                                       *)
(***************************************************************************)
zero == PrimeField64_new(0)

one == PrimeField64_new(1)

InU64(x) == x >= 0 /\ x < U64

\* the arms taken by the conditionals of add / sub / mul, in execution order
add_branches(a, b) ==
    LET sum == (a + b) % U64
    IN  << IF sum < a THEN "carry = 1" ELSE "carry = 0" >>

sub_branches(a, b) ==
    LET diff == (a - b) % U64
    IN  << IF diff > a THEN "borrow = 1" ELSE "borrow = 0" >>

mul_branches(a, b) == <<>>

\* the negation without the reduction by PrimeField64::new
neg_Unreduced(a) == MODULUS - a

neg(a) == IF a = 0 THEN zero ELSE PrimeField64_new(MODULUS - a)

RECURSIVE PowLoop(_, _, _)
PowLoop(result, base, exp) ==
    IF exp > 0
    THEN PowLoop(IF exp % 2 = 1 THEN mul_constant_time(result, base) ELSE result,
                 mul_constant_time(base, base), exp \div 2)
    ELSE result

pow_constant_time(a, exponent) == PowLoop(one, a, exponent)

\* the while loop of inverse_constant_time; `wrapped` records that an update
\* of s or t left the u64 range
RECURSIVE InverseLoop(_, _, _, _, _, _, _, _)
InverseLoop(r, s, t, r_prime, s_prime, t_prime, wrapped, checks) ==
    IF r # 0
    THEN LET quotient == r_prime \div r
             next_r   == r_prime - quotient * r
             next_s   == s_prime - quotient * s
             next_t   == t_prime - quotient * t
             left     == \/ ~InU64(quotient * r) \/ ~InU64(next_r)
                         \/ ~InU64(quotient * s) \/ ~InU64(next_s)
                         \/ ~InU64(quotient * t) \/ ~InU64(next_t)
         IN  IF left /\ checks
             THEN [kind |-> "Panic", value |-> 0, wrapped |-> TRUE]
             ELSE InverseLoop(next_r % U64, next_s % U64, next_t % U64,
                              r, s, t, wrapped \/ left, checks)
    ELSE IF r_prime # 1
         THEN [kind |-> "None", value |-> 0, wrapped |-> wrapped]
         ELSE [kind |-> "Some", value |-> PrimeField64_new(s_prime),
               wrapped |-> wrapped]

inverse_constant_time(a, checks) ==
    IF a = 0
    THEN [kind |-> "None", value |-> 0, wrapped |-> FALSE]
    ELSE InverseLoop(a, 1, 0, MODULUS, 0, 1, FALSE, checks)

(***************************************************************************)
(* Bytes.  A byte is a digit in base ByteBase, the word is WordBytes of    *)
(* them (U64 = ByteBase^WordBytes) and the array holds four words.         *)
(***************************************************************************)
ByteBase == 4
WordBytes == 2
ArrayBytes == 8

to_le_bytes(value) ==
    [i \in 1..WordBytes |-> (value \div (ByteBase ^ (i - 1))) % ByteBase]

RECURSIVE from_le_bytes(_)
from_le_bytes(value_bytes) ==
    IF value_bytes = <<>> THEN 0
    ELSE Head(value_bytes) + ByteBase * from_le_bytes(Tail(value_bytes))

to_bytes_constant_time(a) ==
    LET value == to_le_bytes(a)
    IN  [i \in 1..ArrayBytes |-> IF i <= WordBytes THEN value[i] ELSE 0]

from_bytes_constant_time(bytes) ==
    LET value_bytes == SubSeq(bytes, 1, WordBytes)
        value       == from_le_bytes(value_bytes)
    IN  [kind |-> "Some", value |-> PrimeField64_new(value)]

(***************************************************************************)
(* PrimeField64::sqrt.  A loop whose state comes back to one it has been   *)
(* in never ends: its outcome is kind "Diverges".                          *)
(***************************************************************************)
\* the word has U64_BITS bits: U64 = 2^U64_BITS
U64_BITS == 4

\* u64::pow: the integer power, not reduced by the modulus
RECURSIVE u64_pow(_, _)
u64_pow(q, exp) ==
    IF exp = 0 THEN [value |-> 1, left |-> FALSE]
    ELSE LET rest    == u64_pow(q, exp - 1)
             product == rest.value * q
         IN  [value |-> product % U64, left |-> rest.left \/ ~InU64(product)]

\* while q.pow((MODULUS - 1) / 2) % MODULUS != MODULUS - 1 { q += 1 };
\* `tried` counts the values of q tested so far
RECURSIVE NonResidueLoop(_, _, _)
NonResidueLoop(q, tried, checks) ==
    IF tried = U64 THEN [kind |-> "Diverges", value |-> 0]
    ELSE LET power == u64_pow(q, (MODULUS - 1) \div 2)
         IN  IF power.left /\ checks THEN [kind |-> "Panic", value |-> 0]
             ELSE IF power.value % MODULUS # MODULUS - 1
                  THEN IF ~InU64(q + 1) /\ checks
                       THEN [kind |-> "Panic", value |-> 0]
                       ELSE NonResidueLoop((q + 1) % U64, tried + 1, checks)
                  ELSE [kind |-> "Found", value |-> q]

\* while q_power % 2 == 0 { s += 1; q_power /= 2 }
RECURSIVE FactorLoop(_, _)
FactorLoop(s, q_power) ==
    IF q_power % 2 = 0 THEN FactorLoop(s + 1, q_power \div 2)
    ELSE [s |-> s, q_power |-> q_power]

\* while temp != one && i < m { temp = temp * temp; i += 1 }
RECURSIVE OrderLoop(_, _, _)
OrderLoop(temp, i, m) ==
    IF temp # one /\ i < m
    THEN OrderLoop(mul_constant_time(temp, temp), i + 1, m)
    ELSE i

\* while t != one { ... }; a shift by a negative amount panics with overflow
\* checks and is taken modulo the width of the word without them
RECURSIVE TonelliLoop(_, _, _, _, _, _)
TonelliLoop(r, z, t, m, seen, checks) ==
    IF t = one THEN [kind |-> "Some", value |-> r]
    ELSE IF <<r, z, t, m>> \in seen THEN [kind |-> "Diverges", value |-> 0]
    ELSE LET i     == OrderLoop(t, 0, m)
             shift == m - i - 1
             b     == pow_constant_time(z, 2 ^ (shift % U64_BITS))
             zz    == mul_constant_time(b, b)
         IN  IF shift < 0 /\ checks THEN [kind |-> "Panic", value |-> 0]
             ELSE TonelliLoop(mul_constant_time(r, b), zz,
                              mul_constant_time(t, zz), i,
                              seen \cup {<<r, z, t, m>>}, checks)

sqrt(a, checks) ==
    IF a = 0 THEN [kind |-> "Some", value |-> zero]
    ELSE LET legendre == pow_constant_time(a, (MODULUS - 1) \div 2)
         IN  IF legendre # one THEN [kind |-> "None", value |-> 0]
             ELSE LET found == NonResidueLoop(2, 0, checks)
                      f     == FactorLoop(0, MODULUS - 1)
                      z     == pow_constant_time(PrimeField64_new(found.value),
                                                 f.q_power)
                      r     == pow_constant_time(a, (f.q_power + 1) \div 2)
                      t     == pow_constant_time(a, f.q_power)
                  IN  IF found.kind # "Found" THEN found
                      ELSE TonelliLoop(r, z, t, f.s, {}, checks)

(***************************************************************************)
(* The field engine on its own: two operands are constructed, then the     *)
(* operations of PrimeField64 are applied to fx (starting from fa, with    *)
(* fb as the other operand) and logged.                                    *)
(***************************************************************************)
\* longest sequence of operations applied to fx
MaxOps == 2
\* largest exponent handed to pow
MaxExponent == 3

\* byte arrays handed to from_bytes: every word, zero or non-zero above it
GivenBytes ==
    { [i \in 1..ArrayBytes |-> IF i <= WordBytes THEN to_le_bytes(v)[i] ELSE pad] :
        v \in 0..(U64 - 1), pad \in {0, ByteBase - 1} }

FieldInit ==
    /\ PipelineInit
    /\ BinaryIdle
    /\ DivideIdle
    /\ RestIdle
    /\ overflow_checks \in BOOLEAN
    /\ fa \in {PrimeField64_new(v) : v \in 0..(U64 - 1)}
    /\ fb \in {PrimeField64_new(v) : v \in 0..(U64 - 1)}
    /\ fx = fa
    /\ flog = <<>>
    /\ fpath = <<>>
    /\ finv = NotCalled
    /\ fsqrt = NotCalled

FieldIdleRest ==
    UNCHANGED <<pipelineVars, binaryVars, divideVars, restVars, overflow_checks, fa, fb>>

\* fx = PrimeField64::new(v)
FieldNew(v) ==
    /\ Len(flog) < MaxOps
    /\ fx' = PrimeField64_new(v)
    /\ flog' = Append(flog, "new")
    /\ fpath' = <<>>
    /\ UNCHANGED <<finv, fsqrt>>
    /\ FieldIdleRest

\* fx = fx + fb
FieldAdd ==
    /\ Len(flog) < MaxOps
    /\ fx' = add_constant_time(fx, fb)
    /\ flog' = Append(flog, "add")
    /\ fpath' = add_branches(fx, fb)
    /\ UNCHANGED <<finv, fsqrt>>
    /\ FieldIdleRest

\* fx = fx - fb
FieldSub ==
    /\ Len(flog) < MaxOps
    /\ fx' = sub_constant_time(fx, fb)
    /\ flog' = Append(flog, "sub")
    /\ fpath' = sub_branches(fx, fb)
    /\ UNCHANGED <<finv, fsqrt>>
    /\ FieldIdleRest

\* fx = fx * fb
FieldMul ==
    /\ Len(flog) < MaxOps
    /\ fx' = mul_constant_time(fx, fb)
    /\ flog' = Append(flog, "mul")
    /\ fpath' = mul_branches(fx, fb)
    /\ UNCHANGED <<finv, fsqrt>>
    /\ FieldIdleRest

\* fx = -fx
FieldNeg ==
    /\ Len(flog) < MaxOps
    /\ fx' = neg(fx)
    /\ flog' = Append(flog, "neg")
    /\ fpath' = <<>>
    /\ UNCHANGED <<finv, fsqrt>>
    /\ FieldIdleRest

\* fx = fx.pow(exponent)
FieldPow(exponent) ==
    /\ Len(flog) < MaxOps
    /\ fx' = pow_constant_time(fx, exponent)
    /\ flog' = Append(flog, "pow")
    /\ fpath' = <<>>
    /\ UNCHANGED <<finv, fsqrt>>
    /\ FieldIdleRest

\* if let Some(inv) = fx.inverse() { fx = inv }
FieldInverse ==
    /\ Len(flog) < MaxOps
    /\ finv' = inverse_constant_time(fx, overflow_checks)
    /\ fx' = IF finv'.kind = "Some" THEN finv'.value ELSE fx
    /\ flog' = Append(flog, "inverse")
    /\ fpath' = <<>>
    /\ UNCHANGED fsqrt
    /\ FieldIdleRest

\* if let Some(root) = fx.sqrt() { fx = root }
FieldSqrt ==
    /\ Len(flog) < MaxOps
    /\ fsqrt' = sqrt(fx, overflow_checks)
    /\ fx' = IF fsqrt'.kind = "Some" THEN fsqrt'.value ELSE fx
    /\ flog' = Append(flog, "sqrt")
    /\ fpath' = <<>>
    /\ UNCHANGED finv
    /\ FieldIdleRest

\* fx = PrimeField64::from_bytes(&bytes).unwrap()
FieldFromBytes(bytes) ==
    /\ Len(flog) < MaxOps
    /\ fx' = from_bytes_constant_time(bytes).value
    /\ flog' = Append(flog, "from_bytes")
    /\ fpath' = <<>>
    /\ UNCHANGED <<finv, fsqrt>>
    /\ FieldIdleRest

FieldNext ==
    \/ \E v \in 0..(U64 - 1) : FieldNew(v)
    \/ FieldAdd
    \/ FieldSub
    \/ FieldMul
    \/ FieldNeg
    \/ \E exponent \in 0..MaxExponent : FieldPow(exponent)
    \/ FieldInverse
    \/ FieldSqrt
    \/ \E bytes \in GivenBytes : FieldFromBytes(bytes)

FieldSpec == FieldInit /\ [][FieldNext]_vars

(***************************************************************************)
(* Properties of the field engine.                                         *)
(***************************************************************************)
LastOp == IF flog = <<>> THEN "none" ELSE flog[Len(flog)]

Legendre(a) == pow_constant_time(a, (MODULUS - 1) \div 2)

\* C11: for all elements a and b, (a + b) - b is a again, also when the
\* reduced sum is smaller than b (the subtraction borrows) and when a + b
\* exceeds the word.
C11_AddThenSubRestores ==
    flog = <<"add", "sub">> => fx = fa

\* C12: for every non-zero a, inverse() returns an inv with a * inv = one,
\* hence a * b * inv = b for every b, and no update of the extended-Euclid
\* coefficients leaves the unsigned range of the word.
C12_InverseIsInverse ==
    (flog = <<"inverse">> /\ fa # 0) =>
        /\ finv.kind = "Some"
        /\ ~finv.wrapped
        /\ mul_constant_time(fa, finv.value) = one
        /\ mul_constant_time(mul_constant_time(fa, fb), finv.value) = fb

\* C13: inverse() returns None exactly for the zero element, and Some for
\* every non-zero element.
C13_InverseNoneIffZero ==
    flog = <<"inverse">> =>
        /\ finv.kind = "None" <=> fa = 0
        /\ fa # 0 => finv.kind = "Some"

\* C14: the stored value of every element is strictly below MODULUS: after
\* new, and after any sequence of add, sub, mul, neg, pow, inverse and
\* from_bytes.
C14_ValueBelowModulus ==
    /\ fa \in 0..(MODULUS - 1)
    /\ fb \in 0..(MODULUS - 1)
    /\ fx \in 0..(MODULUS - 1)
    /\ finv.kind = "Some" => finv.value \in 0..(MODULUS - 1)
    /\ fsqrt.kind = "Some" => fsqrt.value \in 0..(MODULUS - 1)

\* an add whose sum exceeded the word, then a negation of the zero element
\* or an inverse that returned an element
C14_Witness ==
    /\ Len(flog) = 2
    /\ flog[1] = "add"
    /\ fa + fb >= U64
    /\ \/ flog[2] = "inverse" /\ finv.kind = "Some"
       \/ flog[2] = "neg"

\* C15: sqrt() returns None exactly when the element is non-zero and its
\* Legendre symbol is not one; for zero and for every quadratic residue a
\* it returns an r with r * r = a.
C15_SqrtCorrect ==
    flog = <<"sqrt">> =>
        /\ fsqrt.kind = "None" <=> (fa # 0 /\ Legendre(fa) # one)
        /\ (fa = 0 \/ Legendre(fa) = one) =>
              /\ fsqrt.kind = "Some"
              /\ mul_constant_time(fsqrt.value, fsqrt.value) = fa

\* C16: add, sub and mul go through the same sequence of conditional arms
\* whatever the operand values are.
C16_ConstantTime ==
    \A a \in Field, b \in Field :
        /\ LastOp = "add" => fpath = add_branches(a, b)
        /\ LastOp = "sub" => fpath = sub_branches(a, b)
        /\ LastOp = "mul" => fpath = mul_branches(a, b)

(***************************************************************************)
(* BinaryField (types/field.rs).  The u64 value is kept at its full width  *)
(* as the set of the positions of its one bits (bit 0 is the lowest), so   *)
(* that the degrees 8, 16 and 32 of the source are the degrees of the      *)
(* model.  The degrees used are below the width of the word, for which the *)
(* shift in new is defined.                                                *)
(***************************************************************************)
BITS == 64

Xor(x, y) == (x \ y) \cup (y \ x)

\* x << n and x >> n on u64
Shl(x, n) == {i + n : i \in {j \in x : j + n < BITS}}

Shr(x, n) == {i - n : i \in {j \in x : j >= n}}

\* x.wrapping_add(y), by carry propagation
RECURSIVE WrappingAdd(_, _)
WrappingAdd(x, y) ==
    IF y = {} THEN x ELSE WrappingAdd(Xor(x, y), Shl(x \cap y, 1))

\* x.wrapping_mul(y): y shifted by every one bit of x, summed
RECURSIVE WrappingMul(_, _)
WrappingMul(x, y) ==
    IF x = {} THEN {}
    ELSE LET i == CHOOSE j \in x : \A k \in x : j <= k
         IN  WrappingAdd(Shl(y, i), WrappingMul(x \ {i}, y))

BinaryField_new(value, degree) ==
    LET mask == 0..(degree - 1)
    IN  [value |-> value \cap mask, degree |-> degree]

\* the degree check left out: the degree of self is used
BinaryField_add_Unchecked(a, b) ==
    [kind |-> "Some", message |-> "",
     element |-> BinaryField_new(Xor(a.value, b.value), a.degree)]

BinaryField_add_constant_time(a, b) ==
    IF a.degree # b.degree
    THEN [kind |-> "Panic", message |-> "Field degrees must match",
          element |-> BinaryField_new({}, 0)]
    ELSE [kind |-> "Some", message |-> "",
          element |-> BinaryField_new(Xor(a.value, b.value), a.degree)]

\* 0x11b, 0x1002b, 0x1000000af
irreducible_polynomial(degree) ==
    CASE degree = 8  -> [kind |-> "Some", value |-> {8, 4, 3, 1, 0}]
      [] degree = 16 -> [kind |-> "Some", value |-> {16, 5, 3, 1, 0}]
      [] degree = 32 -> [kind |-> "Some", value |-> {32, 7, 5, 3, 2, 1, 0}]
      [] OTHER       -> [kind |-> "Panic", value |-> {}]

\* for _ in 0..self.degree { ... }; irreducible_polynomial() is called in
\* every iteration, whatever carry is
RECURSIVE BinaryMulLoop(_, _, _, _, _)
BinaryMulLoop(k, result, a, b, degree) ==
    IF k >= degree
    THEN [kind |-> "Some", message |-> "",
          element |-> BinaryField_new(result, degree)]
    ELSE LET next_result == IF 0 \in b THEN Xor(result, a) ELSE result
             carry       == Shr(a, degree - 1)
             irreducible == irreducible_polynomial(degree)
         IN  IF irreducible.kind = "Panic"
             THEN [kind |-> "Panic", message |-> "Unsupported field degree",
                   element |-> BinaryField_new({}, 0)]
             ELSE BinaryMulLoop(k + 1, next_result,
                                Xor(Shl(a, 1), WrappingMul(carry, irreducible.value)),
                                Shr(b, 1), degree)

BinaryField_mul_constant_time(a, b) ==
    IF a.degree # b.degree
    THEN [kind |-> "Panic", message |-> "Field degrees must match",
          element |-> BinaryField_new({}, 0)]
    ELSE BinaryMulLoop(0, {}, a.value, b.value, a.degree)

(***************************************************************************)
(* The binary field on its own: two elements are constructed and added or  *)
(* multiplied.                                                             *)
(***************************************************************************)
\* 0b101, 0b011 (test_binary_field_operations), 0x80, 0x10001, all ones
GivenValues == { {}, {0, 2}, {0, 1}, {7}, {16, 0}, 0..(BITS - 1) }

GivenDegrees == {4, 8, 16, 32}

BinaryInit ==
    /\ PipelineInit
    /\ FieldIdle
    /\ DivideIdle
    /\ RestIdle
    /\ overflow_checks = FALSE
    /\ ba \in {BinaryField_new(v, d) : v \in GivenValues, d \in GivenDegrees}
    /\ bb \in {BinaryField_new(v, d) : v \in GivenValues, d \in GivenDegrees}
    /\ bresult = NotCalled

\* ba.add_constant_time(&bb)
BinaryAdd ==
    /\ bresult' = [op |-> "add"] @@ BinaryField_add_constant_time(ba, bb)
    /\ UNCHANGED <<pipelineVars, fieldVars, divideVars, restVars, overflow_checks, ba, bb>>

\* ba.mul_constant_time(&bb)
BinaryMul ==
    /\ bresult' = [op |-> "mul"] @@ BinaryField_mul_constant_time(ba, bb)
    /\ UNCHANGED <<pipelineVars, fieldVars, divideVars, restVars, overflow_checks, ba, bb>>

BinaryNext ==
    \/ BinaryAdd
    \/ BinaryMul

BinarySpec == BinaryInit /\ [][BinaryNext]_vars

\* C17: multiplying two elements of a degree other than 8, 16 and 32 ends
\* in a typed error, not in a panic.
C17_UnsupportedDegreeIsTypedError ==
    (/\ bresult.kind # "NotCalled"
     /\ bresult.op = "mul"
     /\ ba.degree = bb.degree
     /\ ba.degree \notin {8, 16, 32}) => bresult.kind = "Err"

\* C18: add and mul on elements of different degree produce no result (the
\* call fails on its degree assertion), and add on elements of equal degree
\* returns the element of that degree whose bits are the exclusive or of
\* the operands' bits.
C18_DegreeMismatchRejected ==
    bresult.kind # "NotCalled" =>
        /\ ba.degree # bb.degree =>
              /\ bresult.kind = "Panic"
              /\ bresult.message = "Field degrees must match"
        /\ (ba.degree = bb.degree /\ bresult.op = "add") =>
              /\ bresult.kind = "Some"
              /\ bresult.element.degree = ba.degree
              /\ \A i \in 0..(BITS - 1) :
                    i \in bresult.element.value <=> ((i \in ba.value) # (i \in bb.value))

\* test_binary_field_operations: 0b101 + 0b011 in degree 8 is 0b110
C18_Witness ==
    /\ bresult.kind = "Some"
    /\ bresult.op = "add"
    /\ ba = [value |-> {0, 2}, degree |-> 8]
    /\ bb = [value |-> {0, 1}, degree |-> 8]
    /\ bresult.element = [value |-> {1, 2}, degree |-> 8]

(***************************************************************************)
(* FieldPolynomial over PrimeField64 (types/polynomial.rs).  A polynomial  *)
(* is its coefficient list, constant term first; the coefficient of index  *)
(* i is element i + 1 of the sequence.                                     *)
(***************************************************************************)
Max(a, b) == IF a > b THEN a ELSE b

FieldPolynomial_zero == << zero >>

\* for i in (0..len).rev() { if !coefficients[i].is_zero() { return i } }
RECURSIVE DegreeLoop(_, _)
DegreeLoop(coefficients, i) ==
    IF i < 0 THEN 0
    ELSE IF coefficients[i + 1] # 0 THEN i
    ELSE DegreeLoop(coefficients, i - 1)

\* the degree read off the stored length
FieldPolynomial_degree_Stored(coefficients) ==
    IF coefficients = <<>> THEN 0 ELSE Len(coefficients) - 1

FieldPolynomial_degree(coefficients) ==
    IF coefficients = <<>> THEN 0
    ELSE DegreeLoop(coefficients, Len(coefficients) - 1)

coefficient(coefficients, index) ==
    IF index < Len(coefficients) THEN coefficients[index + 1] ELSE zero

set_coefficient(coefficients, index, value) ==
    LET padded == [i \in 1..Max(Len(coefficients), index + 1) |->
                      IF i <= Len(coefficients) THEN coefficients[i] ELSE zero]
    IN  [padded EXCEPT ![index + 1] = value]

FieldPolynomial_is_zero(coefficients) ==
    \A i \in 1..Len(coefficients) : coefficients[i] = 0

FieldPolynomial_add(self, other) ==
    LET max_degree == Max(FieldPolynomial_degree(self), FieldPolynomial_degree(other))
    IN  [i \in 1..(max_degree + 1) |->
            add_constant_time(coefficient(self, i - 1), coefficient(other, i - 1))]

\* what the two nested loops of multiply add up in result[k], in their order
RECURSIVE MultiplyLoop(_, _, _, _, _)
MultiplyLoop(self, other, k, i, acc) ==
    IF i > FieldPolynomial_degree(self) THEN acc
    ELSE LET j == k - i
         IN  MultiplyLoop(self, other, k, i + 1,
                 IF j >= 0 /\ j <= FieldPolynomial_degree(other)
                 THEN add_constant_time(acc,
                          mul_constant_time(coefficient(self, i), coefficient(other, j)))
                 ELSE acc)

multiply(self, other) ==
    LET degree == FieldPolynomial_degree(self) + FieldPolynomial_degree(other)
    IN  [k \in 1..(degree + 1) |-> MultiplyLoop(self, other, k - 1, 0, zero)]

FieldPolynomial_neg(coefficients) ==
    [i \in 1..Len(coefficients) |-> neg(coefficients[i])]

(***************************************************************************)
(* FieldPolynomial::divide, one action per step: the call up to the loop,  *)
(* one iteration of the loop, and the return after the loop.               *)
(***************************************************************************)
\* longest coefficient list handed to divide
MaxLen == 3

GivenCoefficients == {0, 1, 5}

RECURSIVE ListsUpTo(_)
ListsUpTo(n) ==
    IF n = 0 THEN { <<>> }
    ELSE LET shorter == ListsUpTo(n - 1)
         IN  shorter \cup { Append(l, c) : l \in {m \in shorter : Len(m) = n - 1},
                                            c \in GivenCoefficients }

GivenPolynomials == ListsUpTo(MaxLen)

DivideInit ==
    /\ PipelineInit
    /\ FieldIdle
    /\ BinaryIdle
    /\ overflow_checks \in BOOLEAN
    /\ DivideIdle
    /\ RestIdle

DivideIdleRest ==
    UNCHANGED <<pipelineVars, fieldVars, binaryVars, restVars, overflow_checks>>

\* a zero divisor is answered with the dividend as the remainder
DivideCall_DividendBack(self, other) ==
    /\ dpc = "idle"
    /\ dividend' = self
    /\ divisor' = other
    /\ dquotient' = FieldPolynomial_zero
    /\ dremainder' = self
    /\ dwritten' = {}
    /\ doverwrote' = FALSE
    /\ IF FieldPolynomial_is_zero(other)
       THEN dresult' = [kind |-> "Some"] /\ dpc' = "done"
       ELSE dresult' = NotCalled /\ dpc' = "loop"
    /\ DivideIdleRest

\* self.divide(&other), up to the first test of the loop condition
DivideCall(self, other) ==
    /\ dpc = "idle"
    /\ dividend' = self
    /\ divisor' = other
    /\ IF FieldPolynomial_is_zero(other)
       THEN /\ dresult' = [kind |-> "None"]
            /\ dpc' = "done"
            /\ UNCHANGED <<dquotient, dremainder>>
       ELSE /\ dquotient' = FieldPolynomial_zero
            /\ dremainder' = self
            /\ dresult' = NotCalled
            /\ dpc' = "loop"
    /\ dwritten' = {}
    /\ doverwrote' = FALSE
    /\ DivideIdleRest

\* the loop condition remainder.degree() >= divisor_degree holds
DivideEnter ==
    /\ dpc = "loop"
    /\ FieldPolynomial_degree(dremainder) >= FieldPolynomial_degree(divisor)
    /\ dpc' = "body"
    /\ UNCHANGED <<dividend, divisor, dquotient, dremainder, dwritten, doverwrote,
                   dresult>>
    /\ DivideIdleRest

\* the body of the loop, back to the test of its condition; dwritten holds
\* the indices of the quotient that set_coefficient has been called on
DivideIterate ==
    /\ dpc = "body"
    /\ LET divisor_degree   == FieldPolynomial_degree(divisor)
           divisor_leading  == coefficient(divisor, divisor_degree)
           remainder_degree == FieldPolynomial_degree(dremainder)
           remainder_leading == coefficient(dremainder, remainder_degree)
           inv     == inverse_constant_time(divisor_leading, overflow_checks)
           coeff   == mul_constant_time(remainder_leading, inv.value)
           temp    == set_coefficient(FieldPolynomial_zero,
                                      remainder_degree - divisor_degree, coeff)
           product == multiply(temp, divisor)
       IN  IF inv.kind = "Some"
           THEN /\ dquotient' = set_coefficient(dquotient,
                                    remainder_degree - divisor_degree, coeff)
                /\ dwritten' = dwritten \cup {remainder_degree - divisor_degree}
                /\ doverwrote' = (doverwrote \/
                                     (remainder_degree - divisor_degree) \in dwritten)
                /\ dremainder' = FieldPolynomial_add(dremainder,
                                                     FieldPolynomial_neg(product))
                /\ dpc' = "loop"
                /\ UNCHANGED dresult
           ELSE /\ dresult' = [kind |-> inv.kind]
                /\ dpc' = "done"
                /\ UNCHANGED <<dquotient, dremainder, dwritten, doverwrote>>
    /\ UNCHANGED <<dividend, divisor>>
    /\ DivideIdleRest

\* the loop condition fails: Some((quotient, remainder))
DivideReturn ==
    /\ dpc = "loop"
    /\ FieldPolynomial_degree(dremainder) < FieldPolynomial_degree(divisor)
    /\ dresult' = [kind |-> "Some"]
    /\ dpc' = "done"
    /\ UNCHANGED <<dividend, divisor, dquotient, dremainder, dwritten, doverwrote>>
    /\ DivideIdleRest

DivideNext ==
    \/ \E self \in GivenPolynomials, other \in GivenPolynomials : DivideCall(self, other)
    \/ DivideEnter
    \/ DivideIterate
    \/ DivideReturn

DivideSpec == DivideInit /\ [][DivideNext]_vars

\* the body of the loop is left: from position "body" the only step of
\* DivideNext is DivideIterate, which goes back to the test or returns
DivideLeaveBody == dpc = "body" /\ dpc' \in {"loop", "done"}

\* divide is sequential code: once called it keeps executing, so no step of
\* the loop stays enabled for ever without being taken
DivideLiveSpec ==
    /\ DivideSpec
    /\ WF_vars(DivideEnter)
    /\ WF_dpc(DivideLeaveBody)
    /\ WF_vars(DivideReturn)

\* the two lists have the same coefficient at every index
SamePolynomial(p, q) ==
    \A i \in 0..Max(Len(p), Len(q)) : coefficient(p, i) = coefficient(q, i)

\* C19: for every p and every non-zero q, constants included, p.divide(q)
\* returns a quotient and a remainder with quotient * q + remainder = p.
C19_DivideReconstructs ==
    (dpc = "done" /\ ~FieldPolynomial_is_zero(divisor)) =>
        /\ dresult.kind = "Some"
        /\ SamePolynomial(FieldPolynomial_add(multiply(dquotient, divisor), dremainder),
                          dividend)

\* C20: divide returns None whenever the divisor is the zero polynomial,
\* be it the empty list or a list of zeros, and whenever the leading
\* coefficient of the divisor has no inverse.
C20_ZeroDivisorIsNone ==
    dpc = "done" =>
        /\ (\A i \in 1..Len(divisor) : divisor[i] = 0) => dresult.kind = "None"
        /\ LET leading == coefficient(divisor, FieldPolynomial_degree(divisor))
           IN  inverse_constant_time(leading, overflow_checks).kind = "None"
                  => dresult.kind = "None"

\* a non-zero dividend divided by a list of two or more zeros
C20_Witness ==
    /\ dpc = "done"
    /\ dresult.kind = "None"
    /\ Len(divisor) >= 2
    /\ ~FieldPolynomial_is_zero(dividend)

(***************************************************************************)
(* FieldPolynomial::derivative and FieldPolynomial::interpolate.           *)
(***************************************************************************)
CHARACTERISTIC == MODULUS

constant(value) == << value >>

\* every term multiplied by the index below its own
derivative_IndexOff(coefficients) ==
    IF FieldPolynomial_degree(coefficients) = 0 THEN FieldPolynomial_zero
    ELSE [i \in 1..FieldPolynomial_degree(coefficients) |->
             IF i % CHARACTERISTIC # 0
             THEN mul_constant_time(coefficient(coefficients, i), PrimeField64_new(i - 1))
             ELSE zero]

derivative(coefficients) ==
    IF FieldPolynomial_degree(coefficients) = 0 THEN FieldPolynomial_zero
    ELSE [i \in 1..FieldPolynomial_degree(coefficients) |->
             IF i % CHARACTERISTIC # 0
             THEN mul_constant_time(coefficient(coefficients, i), PrimeField64_new(i))
             ELSE zero]

\* the inner loop of interpolate for point i: term and denominator after
\* the points j .. last
RECURSIVE BasisLoop(_, _, _, _, _)
BasisLoop(pts, i, j, term, denominator) ==
    IF j > Len(pts) THEN [term |-> term, denominator |-> denominator]
    ELSE IF i # j
         THEN LET factor == << neg(pts[j][1]), one >>
              IN  BasisLoop(pts, i, j + 1, multiply(term, factor),
                            mul_constant_time(denominator,
                                              sub_constant_time(pts[i][1], pts[j][1])))
         ELSE BasisLoop(pts, i, j + 1, term, denominator)

\* the outer loop of interpolate from point i on
RECURSIVE InterpolateLoop(_, _, _, _)
InterpolateLoop(pts, i, result, checks) ==
    IF i > Len(pts) THEN [kind |-> "Some", polynomial |-> result]
    ELSE LET basis == BasisLoop(pts, i, 1, constant(pts[i][2]), one)
             inv   == inverse_constant_time(basis.denominator, checks)
             term  == multiply(basis.term, constant(inv.value))
         IN  IF inv.kind # "Some" THEN [kind |-> inv.kind, polynomial |-> <<>>]
             ELSE InterpolateLoop(pts, i + 1, FieldPolynomial_add(result, term), checks)

interpolate(pts, checks) ==
    IF pts = <<>> THEN [kind |-> "None", polynomial |-> <<>>]
    ELSE InterpolateLoop(pts, 1, FieldPolynomial_zero, checks)

(***************************************************************************)
(* The polynomial engine on its own: a polynomial is constructed and       *)
(* new, set_coefficient, add, multiply and derivative are applied to it,   *)
(* or interpolate is called on a list of points.                           *)
(***************************************************************************)
\* longest sequence of operations applied to poly
MaxPolyOps == 2
\* longest list of points handed to interpolate
MaxPoints == 3

\* one coefficient per index up to one past the characteristic
LongPolynomial == [i \in 1..(CHARACTERISTIC + 2) |-> one]

\* the zero polynomial in three representations, the polynomials of
\* test_polynomial_basic_operations, one with a zero inside, a long one
StartPolynomials ==
    { <<>>, <<0>>, <<0, 0>>, <<1, 2, 3>>, <<1, 1>>, <<5>>, <<1, 0, 12>>,
      LongPolynomial }

OtherPolynomials == { <<1, 1>>, <<0, 12>>, <<0, 0>> }

\* (1, 1), (2, 4), (3, 9) of test_polynomial_interpolation, and a second
\* point above 2
GivenPointValues == { <<1, 1>>, <<2, 4>>, <<3, 9>>, <<2, 5>> }

RECURSIVE PointListsUpTo(_)
PointListsUpTo(n) ==
    IF n = 0 THEN { <<>> }
    ELSE LET shorter == PointListsUpTo(n - 1)
         IN  shorter \cup { Append(l, pt) : l \in {m \in shorter : Len(m) = n - 1},
                                             pt \in GivenPointValues }

PolyInit ==
    /\ PipelineInit
    /\ FieldIdle
    /\ BinaryIdle
    /\ DivideIdle
    /\ MerkleIdle
    /\ TableIdle
    /\ overflow_checks \in BOOLEAN
    /\ poly \in StartPolynomials
    /\ pprev = poly
    /\ plog = <<>>
    /\ points = <<>>
    /\ iresult = NotCalled

PolyIdleRest ==
    UNCHANGED <<pipelineVars, fieldVars, binaryVars, divideVars, merkleVars,
                tableVars, overflow_checks>>

\* the operation `name` turned poly into `result`
PolyStep(name, result) ==
    /\ Len(plog) < MaxPolyOps
    /\ iresult = NotCalled
    /\ pprev' = poly
    /\ poly' = result
    /\ plog' = Append(plog, name)
    /\ UNCHANGED <<points, iresult>>
    /\ PolyIdleRest

\* poly = FieldPolynomial::new(coefficients)
PolyNew(coefficients) == PolyStep("new", coefficients)

\* poly.set_coefficient(index, value)
PolySetCoefficient(index, value) ==
    PolyStep("set_coefficient", set_coefficient(poly, index, value))

\* poly = poly.add(&other)
PolyAdd(other) == PolyStep("add", FieldPolynomial_add(poly, other))

\* poly = poly.multiply(&other)
PolyMultiply(other) == PolyStep("multiply", multiply(poly, other))

\* poly = poly.derivative()
PolyDerivative == PolyStep("derivative", derivative(poly))

\* FieldPolynomial::interpolate(&pts)
Interpolate(pts) ==
    /\ plog = <<>>
    /\ iresult = NotCalled
    /\ points' = pts
    /\ iresult' = interpolate(pts, overflow_checks)
    /\ UNCHANGED <<poly, pprev, plog>>
    /\ PolyIdleRest

PolyNext ==
    \/ \E coefficients \in OtherPolynomials : PolyNew(coefficients)
    \/ \E index \in {0, 1, 4}, value \in {0, 5} : PolySetCoefficient(index, value)
    \/ \E other \in OtherPolynomials : PolyAdd(other)
    \/ \E other \in OtherPolynomials : PolyMultiply(other)
    \/ PolyDerivative
    \/ \E pts \in PointListsUpTo(MaxPoints) : Interpolate(pts)

PolySpec == PolyInit /\ [][PolyNext]_vars

LastPolyOp == IF plog = <<>> THEN "none" ELSE plog[Len(plog)]

\* C21: the derivative has at index i - 1 the product of i and the input's
\* coefficient at index i, and the additive identity where i is divisible
\* by the characteristic; the derivative of a polynomial of degree 0 is the
\* zero polynomial.
C21_Derivative ==
    LastPolyOp = "derivative" =>
        IF FieldPolynomial_degree(pprev) = 0
        THEN poly = << 0 >>
        ELSE /\ Len(poly) = FieldPolynomial_degree(pprev)
             /\ \A i \in 1..FieldPolynomial_degree(pprev) :
                   poly[i] = IF i % MODULUS = 0 THEN 0
                             ELSE (i * pprev[i + 1]) % MODULUS

\* the derivative of a polynomial whose degree reaches the characteristic
C21_Witness ==
    /\ LastPolyOp = "derivative"
    /\ FieldPolynomial_degree(pprev) >= CHARACTERISTIC
    /\ pprev[CHARACTERISTIC + 1] # 0
    /\ poly[CHARACTERISTIC] = 0

DistinctX(pts) == \A i, j \in 1..Len(pts) : i # j => pts[i][1] # pts[j][1]

\* C22: for a non-empty list of points with pairwise distinct x, interpolate
\* returns a polynomial that evaluates to y_i at every x_i.
C22_InterpolateRoundTrip ==
    (iresult.kind # "NotCalled" /\ points # <<>> /\ DistinctX(points)) =>
        /\ iresult.kind = "Some"
        /\ \A k \in 1..Len(points) :
              evaluate(iresult.polynomial, points[k][1]) = points[k][2]

\* C23: interpolate returns None for the empty list and whenever two points
\* share their x; no polynomial comes out of a zero denominator.
C23_InterpolateFails ==
    (iresult.kind # "NotCalled" /\ (points = <<>> \/ ~DistinctX(points))) =>
        iresult.kind = "None"

HighestNonZero(coefficients) ==
    IF \A i \in 1..Len(coefficients) : coefficients[i] = 0 THEN 0
    ELSE CHOOSE i \in 0..(Len(coefficients) - 1) :
            /\ coefficients[i + 1] # 0
            /\ \A j \in (i + 1)..(Len(coefficients) - 1) : coefficients[j + 1] = 0

\* C28: after any sequence of new, set_coefficient, add and multiply,
\* degree() is the index of the highest non-zero coefficient, 0 for the
\* empty list and for a list of zeros, and coefficient(i) is the additive
\* identity for every i at or beyond the stored length.
C28_DegreeAndCoefficient ==
    /\ FieldPolynomial_degree(poly) = HighestNonZero(poly)
    /\ \A i \in Len(poly)..(Len(poly) + 2) : coefficient(poly, i) = 0

\* an add or set_coefficient that left a zero in the highest stored place
C28_Witness ==
    /\ LastPolyOp \in {"add", "set_coefficient"}
    /\ Len(poly) >= 2
    /\ poly[Len(poly)] = 0
    /\ ~FieldPolynomial_is_zero(poly)

(***************************************************************************)
(* The Merkle commitment engine.  generate_commitment and                  *)
(* verify_inclusion_proof are the functions of proof/merkle.rs; the        *)
(* inclusion path comes from generate_proof, which benchmarks/mod.rs calls *)
(* on a MerkleTree that the sources do not define: it is modelled from     *)
(* section 4.6 of the specification, with an injective pairing for the     *)
(* hash of two children and the last node duplicated on an odd level.      *)
(***************************************************************************)
\* most leaves committed to
MaxLeaves == 3

LeafValues == {1, 2}

\* hash of an internal node's two children
hash_children(left, right) == ((left + right) * (left + right + 1)) \div 2 + right

\* an odd level is padded with its last node
PadLevel(level) ==
    IF Len(level) % 2 = 1 THEN Append(level, level[Len(level)]) ELSE level

NextLevel(level) ==
    LET padded == PadLevel(level)
    IN  [i \in 1..(Len(padded) \div 2) |->
            hash_children(padded[2 * i - 1], padded[2 * i])]

\* the sibling of the node at `index` (from 0) on every level below the root
RECURSIVE ProofLoop(_, _)
ProofLoop(level, index) ==
    IF Len(level) <= 1 THEN <<>>
    ELSE LET padded  == PadLevel(level)
             sibling == IF index % 2 = 0 THEN padded[index + 2] ELSE padded[index]
         IN  << sibling >> \o ProofLoop(NextLevel(level), index \div 2)

generate_proof(leafs, index) == ProofLoop(leafs, index)

\* vec![]: the root does not depend on the data
generate_commitment(data) == <<>>

\* every path is accepted against every root
verify_inclusion_proof(root, proof_path) == TRUE

RECURSIVE LeafListsUpTo(_)
LeafListsUpTo(n) ==
    IF n = 1 THEN { << v >> : v \in LeafValues }
    ELSE LET shorter == LeafListsUpTo(n - 1)
         IN  shorter \cup { Append(l, v) : l \in {m \in shorter : Len(m) = n - 1},
                                            v \in LeafValues }

\* values a path element is replaced with
AlteredValues == {0, 1}

MerkleInit ==
    /\ PipelineInit
    /\ overflow_checks = FALSE
    /\ FieldIdle
    /\ BinaryIdle
    /\ DivideIdle
    /\ PolyIdle
    /\ TableIdle
    /\ MerkleIdle

MerkleIdleRest ==
    UNCHANGED <<pipelineVars, fieldVars, binaryVars, divideVars, polyVars,
                tableVars, overflow_checks>>

\* root = generate_commitment(&leaves)
MerkleCommit(leafs) ==
    /\ leaves = <<>>
    /\ leaves' = leafs
    /\ mroot' = generate_commitment(leafs)
    /\ UNCHANGED <<mindex, mpath, maltered, mverified>>
    /\ MerkleIdleRest

\* path = tree.generate_proof(index)
MerkleProve(index) ==
    /\ leaves # <<>>
    /\ mpath = <<>>
    /\ ~maltered
    /\ mverified = NotCalled
    /\ index < Len(leaves)
    /\ mindex' = index
    /\ mpath' = generate_proof(leaves, index)
    /\ UNCHANGED <<leaves, mroot, maltered, mverified>>
    /\ MerkleIdleRest

\* one element of the path is replaced by a different value
MerkleAlter(position, value) ==
    /\ mverified = NotCalled
    /\ ~maltered
    /\ position \in 1..Len(mpath)
    /\ value # mpath[position]
    /\ mpath' = [mpath EXCEPT ![position] = value]
    /\ maltered' = TRUE
    /\ UNCHANGED <<leaves, mroot, mindex, mverified>>
    /\ MerkleIdleRest

\* verify_inclusion_proof(&root, &path)
MerkleVerify ==
    /\ leaves # <<>>
    /\ mverified = NotCalled
    /\ \/ maltered
       \/ mpath = generate_proof(leaves, mindex)
    /\ mverified' = [kind |-> "Some", value |-> verify_inclusion_proof(mroot, mpath)]
    /\ UNCHANGED <<leaves, mroot, mindex, mpath, maltered>>
    /\ MerkleIdleRest

MerkleNext ==
    \/ \E leafs \in LeafListsUpTo(MaxLeaves) : MerkleCommit(leafs)
    \/ \E index \in 0..(MaxLeaves - 1) : MerkleProve(index)
    \/ \E position \in 1..MaxLeaves, value \in AlteredValues :
          MerkleAlter(position, value)
    \/ MerkleVerify

MerkleSpec == MerkleInit /\ [][MerkleNext]_vars

\* C24: verification accepts the path generated for a leaf of the committed
\* sequence, and rejects that path once one of its elements is altered.
C24_MerkleRoundTrip ==
    mverified.kind = "Some" => (mverified.value <=> ~maltered)

(***************************************************************************)
(* Properties of the FRI layers and of the constraint polynomials of the   *)
(* pipeline.                                                               *)
(***************************************************************************)
DegreesDecrease(layers) ==
    \A i \in 1..(Len(layers) - 1) : layers[i + 1].degree < layers[i].degree

\* C25: every FRI proof accepted by structural validation has layer degrees
\* that strictly decrease from one layer to the next.
C25_FriDegreesDecrease ==
    validateResult = "Ok" => DegreesDecrease(proof.fri_proof.layers)

\* the trace has the rows 0 .. length - 1 in every column
HasRows(t) == \A i \in 1..Len(t.columns) : Len(t.columns[i]) >= t.length

ConstraintPolynomialsShape ==
    /\ constraint_polynomials.kind = "Ok"
    /\ Len(constraint_polynomials.polynomials) = Len(air.constraints)
    /\ \A c \in 1..Len(constraint_polynomials.polynomials) :
          Len(constraint_polynomials.polynomials[c]) =
             IF trace.length >= 2 THEN trace.length - 1 ELSE 0

MaxRows == 2

\* WinterfellFieldElement::default()
WinterfellFieldElement_default == zero

\* values of test_winterfell_trace_table_creation, and zero
TableValues == {0, 1, 4}

RECURSIVE ColumnsOf(_, _)
ColumnsOf(length, values) ==
    IF length = 0 THEN { <<>> }
    ELSE { Append(c, v) : c \in ColumnsOf(length - 1, values), v \in values }

\* traces with one column per register and `length` values per column, and
\* the trace of test_winterfell_trace_table_creation
GivenXfgTraces ==
    { [columns |-> << <<1, 2>>, <<3, 4>> >>, length |-> 2, num_registers |-> 2] }
    \cup
    UNION { UNION { { [columns |-> cols, length |-> length, num_registers |-> n] :
                         cols \in [1..n -> ColumnsOf(length, TableValues)] } :
                    n \in 1..2 } :
            length \in 0..MaxRows }

\* data starts as num_rows rows of num_cols default elements, and the loop
\* stores the default element again in every cell it visits
from_xfg_trace(t) ==
    LET num_rows == t.length
        num_cols == t.num_registers
        data     == [j \in 1..num_rows |->
                        [i \in 1..num_cols |-> WinterfellFieldElement_default]]
    IN  [kind     |-> "Some",
         num_rows |-> num_rows,
         num_cols |-> num_cols,
         data     |-> [j \in 1..num_rows |->
                          [i \in 1..num_cols |->
                              IF i <= Len(t.columns) /\ j <= Len(t.columns[i])
                              THEN WinterfellFieldElement_default
                              ELSE data[j][i]]]]

\* rows and columns count from 0
get(table, row, col) ==
    IF row < table.num_rows /\ col < table.num_cols
    THEN [kind |-> "Some", value |-> table.data[row + 1][col + 1],
          row |-> row, col |-> col]
    ELSE [kind |-> "None", value |-> 0, row |-> row, col |-> col]

TableInit ==
    /\ PipelineInit
    /\ overflow_checks = FALSE
    /\ FieldIdle
    /\ BinaryIdle
    /\ DivideIdle
    /\ PolyIdle
    /\ MerkleIdle
    /\ TableIdle

TableIdleRest ==
    UNCHANGED <<pipelineVars, fieldVars, binaryVars, divideVars, polyVars,
                merkleVars, overflow_checks>>

\* table = WinterfellTraceTable::from_xfg_trace(&t)
FromXfgTrace(t) ==
    /\ wtable = NotCalled
    /\ xtrace' = t
    /\ wtable' = from_xfg_trace(t)
    /\ UNCHANGED wget
    /\ TableIdleRest

\* table.get(row, col)
Get(row, col) ==
    /\ wtable # NotCalled
    /\ wget = NotCalled
    /\ wget' = get(wtable, row, col)
    /\ UNCHANGED <<xtrace, wtable>>
    /\ TableIdleRest

TableNext ==
    \/ \E t \in GivenXfgTraces : FromXfgTrace(t)
    \/ \E row \in 0..MaxRows, col \in 0..2 : Get(row, col)

TableSpec == TableInit /\ [][TableNext]_vars

\* C26: after from_xfg_trace(trace), get(row, col) returns the element
\* trace.columns[col][row] for every row below length and every column
\* below num_registers.
C26_TableKeepsValues ==
    (/\ wget.kind # "NotCalled"
     /\ wget.row < xtrace.length
     /\ wget.col < xtrace.num_registers)
        => /\ wget.kind = "Some"
           /\ wget.value = xtrace.columns[wget.col + 1][wget.row + 1]

(***************************************************************************)
(* Termination of divide and the shape of what it returns.                 *)
(***************************************************************************)
\* C29: divide terminates for every dividend and every non-zero divisor:
\* once the loop is reached it is left after finitely many iterations, also
\* when the divisor is a non-zero constant and the remainder has become
\* the zero polynomial.
C29_DivideTerminates == (dpc = "loop") ~> (dpc = "done")

\* C30: whenever divide returns (quot, rem) for a divisor of degree at least
\* 1, the degree of rem is strictly smaller than the divisor's, and no
\* iteration has written a quotient coefficient that an earlier iteration
\* had written.
C30_RemainderSmallerNoOverwrite ==
    (/\ dpc = "done"
     /\ dresult.kind = "Some"
     /\ FieldPolynomial_degree(divisor) >= 1)
        => /\ FieldPolynomial_degree(dremainder) < FieldPolynomial_degree(divisor)
           /\ ~doverwrote

====
